---- MODULE Spec2Model ----
(***************************************************************************)
(* A model of the contract-call engine of evs-cli (src/src/call.rs):       *)
(* message composition, the choice of the execution path, local emulation, *)
(* network submission and the failure-triggered debug replay, together     *)
(* with the name/value argument parser.                                    *)
(***************************************************************************)
EXTENDS Integers, Sequences, FiniteSets

VARIABLES
    entry,      \* which public function was called: "client" or "msg"
    is_fee,     \* the is_fee argument of call_contract_with_client
    config,     \* the Config fields the engine reads
    pc,         \* position inside the running function
    clock,      \* wall clock in milliseconds (now_ms(); now() is clock / 1000)
    chainAcc,   \* version of the target account's state on the network
    header,     \* the FunctionHeader {expire, time}
    message,    \* the message returned by encode_message (Option)
    emu,        \* what emulate_locally did, once it has run
    dump,       \* the pre-captured (bc_config, account, message, now) (Option)
    res,        \* the result of process_message
    replay,     \* what the debug branch did, once it has run
    result,     \* the value returned to the caller
    trace,      \* the calls made to the SDK / network / executor, in order
    out,        \* the lines printed to stdout, in order
    args,       \* parse_params: the input (params_vec and the method's inputs)
    parsed,     \* parse_params: the returned Result
    remote,     \* what the network did with the submitted message
    encodings,  \* the messages encoded so far (encode_message and process_message)
    events,     \* the ProcessingEvents delivered to the callbacks
    loggerSet,  \* the process-wide logger (log::set_boxed_logger) is installed
    inv,        \* number of the invocation running in this process
    bcall       \* BrowserInterface: the last call made and what it did

vars == <<entry, is_fee, config, pc, clock, chainAcc, header, message, emu,
          dump, res, replay, result, trace, out, args, parsed,
          remote, encodings, events, loggerSet, inv, bcall>>

callVars == <<entry, is_fee, config, pc, clock, chainAcc, header, message, emu,
              dump, res, replay, result, trace, out>>

paramVars == <<args, parsed>>

netVars == <<remote, encodings, events>>

procVars == <<loggerSet, inv>>

-----------------------------------------------------------------------------
(* Bounds of the model *)

\* u32 arithmetic is modelled modulo U32Mod (a scaled-down 2^32)
U32Mod == 4

\* the clock advances at most this many half-seconds
MaxClockTicks == 2

\* the on-chain account changes at most this many times
MaxAccVersion == 1

(* Program constants *)

\* milliseconds per second: block_unixtime = now / 1000
MsPerSec == 1000

ClockStep == MsPerSec \div 2

SDK_EXECUTION_ERROR_CODE == "SDK_EXECUTION_ERROR_CODE"

TRANSPORT_ERROR_CODE == "TRANSPORT_ERROR_CODE"

ErrorCodes == {SDK_EXECUTION_ERROR_CODE, TRANSPORT_ERROR_CODE}

-----------------------------------------------------------------------------
(* Result<_, _> and Option<_> values *)

Ok(v) == [kind |-> "ok", val |-> v]

Err(e) == [kind |-> "err", val |-> e]

Panic(e) == [kind |-> "panic", val |-> e]

NoResult == [kind |-> "none", val |-> ""]

\* read_now records the value now() returned when expire was computed
NoHeader == [some |-> FALSE, expire |-> 0, time |-> 0, read_now |-> 0]

NoMessage == [some |-> FALSE, expire |-> 0, time |-> 0]

NoDump == [some |-> FALSE, bc_config |-> "", account |-> 0, message |-> NoMessage, now |-> 0]

NoEmu == [ran |-> FALSE, absent |-> FALSE, synthesized |-> FALSE,
          executorRun |-> FALSE, unlimited_balance |-> FALSE, res |-> NoResult]

\* last_tr_lt, seed_block: the other ExecuteParams; account_after: the private
\* copy once the executor has run on it; at: the clock when the branch ran
NoReplay == [entered |-> FALSE, executed |-> FALSE, message |-> NoMessage,
             block_lt |-> 0, block_unixtime |-> 0, account |-> 0,
             last_tr_lt |-> 0, seed_block |-> 0, bc_config |-> "",
             account_after |-> 0, at |-> 0]

\* sent: the message reached the network; account, time: the account state
\* and the clock when the network answered
NoRemote == [sent |-> FALSE, message |-> NoMessage, account |-> 0, time |-> 0]

\* no call of a BrowserInterface yet
NoCall == [made |-> FALSE, func |-> "", answerId |-> [kind |-> "absent", str |-> <<>>],
           answer |-> [kind |-> "none", params |-> ""], processorCalls |-> 0,
           innerCalls |-> 0, inner |-> [kind |-> "none", val |-> ""],
           result |-> [kind |-> "none", val |-> ""]]

NoArgs == [params_vec |-> <<>>, inputs |-> <<>>]

\* the Result of parse_params: Ok(raw token), Ok(json object) or Err
NoParsed == [kind |-> "none", form |-> "", raw |-> <<>>, json |-> <<>>, err |-> ""]

-----------------------------------------------------------------------------
(* helpers::now() and helpers::now_ms() *)

now_ms == clock

now == clock \div MsPerSec

\* config.lifetime + now()? on u32: the sum as the build computes it
U32AddWrap_Saturating(a, b) == IF a + b >= U32Mod THEN U32Mod - 1 ELSE a + b

U32AddWrap(a, b) == (a + b) % U32Mod

U32AddOverflows(a, b) == a + b >= U32Mod

\* needs_encoded_msg
NeedsEncodedMsg_Always(fee, cfg) == TRUE

NeedsEncodedMsg(fee, cfg) ==
    fee \/ cfg.async_call \/ cfg.local_run \/ cfg.debug_fail

\* encode_message(..).await.map_err(..)? : an Err of the encoding is returned
EncodeErrorReturns_Ignored(r) == FALSE

EncodeErrorReturns(r) == r.kind = "err"

\* where call_contract_with_client goes once the message is encoded
AfterEncodePc(fee, cfg) ==
    IF cfg.local_run \/ fee THEN "emulate"
    ELSE IF cfg.async_call THEN "send"
    ELSE "expire_print"

\* where call_contract_with_client goes once emulate_locally returned Ok
EmulateReturnsNull_NoFeeReturn(fee) == FALSE

EmulateReturnsNull(fee) == fee

\* emulate_locally(..).await? : an Err of the emulation is returned
EmulateErrorReturns_OnlyInFeeMode(fee, r) == fee /\ r.kind = "err"

EmulateErrorReturns(fee, r) == r.kind = "err"

AfterEmulatePc_EncodeAgain(cfg) == "encode"

AfterEmulatePc(cfg) ==
    IF cfg.async_call THEN "send" ELSE "expire_print"

\* the condition guarding the debug branch
ReplayTriggered_AnyError(cfg, r) ==
    cfg.debug_fail /\ r.kind = "err"

ReplayTriggered(cfg, r) ==
    cfg.debug_fail /\ r.kind = "err" /\ r.val = SDK_EXECUTION_ERROR_CODE

\* the message encode_message (or process_message) builds from msg_params
Encode(h) == [some |-> TRUE, expire |-> h.expire, time |-> h.time]

\* the account state an executor leaves in the copy it ran on
ExecutedState(a) == a + MaxAccVersion + 1

\* run_executor and execute_with_libs_and_params work on a copy: the account
\* on the network stays what it was
ChainAfterLocalRun_WriteBack(chain, copy) == copy

ChainAfterLocalRun(chain, copy) == chain

\* let (bc_config, mut account, message, now) = dump.unwrap();
ReplayNow_Resampled(d, current) == current

ReplayNow(d, current) == d.now

ReplayAccount_Refetched(d, current) == current

ReplayAccount(d, current) == d.account

\* send_events of ParamsOfSendMessage and of ParamsOfProcessMessage
SendMessageSendEvents == FALSE

ProcessMessageSendEvents_Off == FALSE

ProcessMessageSendEvents == TRUE

\* the events the SDK delivers to the callback when the message is sent
SentEvents(send_events, sent) ==
    IF send_events /\ sent THEN <<"DidSend">> ELSE <<>>

\* the callback of process_message: prints the id of DidSend unless is_json
ProcessCallback(cfg, evs) ==
    IF cfg.is_json THEN <<>> ELSE [i \in DOMAIN evs |-> "MessageId"]

ENCODE_ERROR_CODE == "ENCODE_ERROR_CODE"

-----------------------------------------------------------------------------
(* emulate_locally *)

FeeLines == <<"{", "in_msg_fwd_fee", "storage_fee", "gas_fee",
              "out_msgs_fwd_fee", "total_account_fees", "total_output", "}">>

\* fetchOk: query_account_field returned Ok; addrOk, serOk: the synthesis of
\* the dummy account succeeded; execOk: run_executor returned Ok
EmulateLocally_SynthAlways(fee, fetchOk, addrOk, serOk, execOk) ==
    LET synth == ~fetchOk
        q == <<"query_account_field">>
    IN  IF synth /\ ~addrOk
        THEN [res |-> Err("couldn't decode address"), calls |-> q, lines |-> <<>>,
              emu |-> [ran |-> TRUE, absent |-> TRUE, synthesized |-> FALSE,
                       executorRun |-> FALSE, unlimited_balance |-> FALSE,
                       res |-> Err("couldn't decode address")]]
        ELSE IF synth /\ ~serOk
        THEN [res |-> Err("couldn't create dummy account"), calls |-> q, lines |-> <<>>,
              emu |-> [ran |-> TRUE, absent |-> TRUE, synthesized |-> FALSE,
                       executorRun |-> FALSE, unlimited_balance |-> FALSE,
                       res |-> Err("couldn't create dummy account")]]
        ELSE LET r == IF execOk THEN Ok("") ELSE Err("run_executor error")
             IN  [res |-> r, calls |-> q \o <<"run_executor">>,
                  lines |-> IF ~execOk THEN <<>>
                            ELSE IF fee THEN FeeLines
                            ELSE <<"Local run succeeded. Executing onchain.">>,
                  emu |-> [ran |-> TRUE, absent |-> ~fetchOk, synthesized |-> synth,
                           executorRun |-> TRUE, unlimited_balance |-> fee,
                           res |-> r]]

EmulateLocally(fee, fetchOk, addrOk, serOk, execOk) ==
    LET q == <<"query_account_field">>
        fail(e, absent) ==
            [res |-> Err(e), calls |-> q, lines |-> <<>>,
             emu |-> [ran |-> TRUE, absent |-> absent, synthesized |-> FALSE,
                      executorRun |-> FALSE, unlimited_balance |-> FALSE,
                      res |-> Err(e)]]
    IN  IF ~fetchOk /\ ~fee THEN fail("account unavailable", TRUE)
        ELSE IF ~fetchOk /\ ~addrOk THEN fail("couldn't decode address", TRUE)
        ELSE IF ~fetchOk /\ ~serOk THEN fail("couldn't create dummy account", TRUE)
        ELSE LET r == IF execOk THEN Ok("") ELSE Err("run_executor error")
             IN  [res |-> r, calls |-> q \o <<"run_executor">>,
                  lines |-> IF ~execOk THEN <<>>
                            ELSE IF fee THEN FeeLines
                            ELSE <<"Local run succeeded. Executing onchain.">>,
                  emu |-> [ran |-> TRUE, absent |-> ~fetchOk, synthesized |-> ~fetchOk,
                           executorRun |-> TRUE, unlimited_balance |-> fee,
                           res |-> r]]

-----------------------------------------------------------------------------
(* The initial states: one invocation, with every combination of the flags *)

Lifetimes == 1 .. (U32Mod - 1)

Configs == [async_call : BOOLEAN, local_run : BOOLEAN, debug_fail : BOOLEAN,
            is_json : BOOLEAN, lifetime : Lifetimes]

InitCall ==
    /\ entry \in {"client", "msg"}
    /\ config \in Configs
    /\ is_fee \in BOOLEAN
    /\ entry = "msg" => (~is_fee /\ config.lifetime = 1 /\ ~config.local_run /\ ~config.debug_fail)
    /\ pc = IF entry = "client" THEN "load_abi" ELSE "msg_start"
    /\ clock = MsPerSec
    /\ chainAcc = 0
    /\ header = NoHeader
    /\ message = NoMessage
    /\ emu = NoEmu
    /\ dump = NoDump
    /\ res = NoResult
    /\ replay = NoReplay
    /\ result = NoResult
    /\ trace = <<>>
    /\ out = <<>>
    /\ remote = NoRemote
    /\ encodings = <<>>
    /\ events = <<>>

Init ==
    /\ InitCall
    /\ args = NoArgs
    /\ parsed = NoParsed
    /\ loggerSet = FALSE
    /\ bcall = NoCall
    /\ inv = 1

\* the function returns r
Return(r) ==
    /\ pc' = "done"
    /\ result' = r

Println(cfg, line) == IF cfg.is_json THEN <<>> ELSE <<line>>

-----------------------------------------------------------------------------
(* call_contract_with_client *)

\* let abi = load_abi(&abi)?;
LoadAbi ==
    /\ pc = "load_abi"
    /\ \E ok \in BOOLEAN :
         IF ok THEN pc' = "now" /\ UNCHANGED result
         ELSE Return(Err("load_abi"))
    /\ UNCHANGED <<entry, is_fee, config, clock, chainAcc, header, message, emu,
                   dump, res, replay, trace, out, paramVars, netVars, procVars, bcall>>

\* let expire_at = config.lifetime + now()?;
ReadNow ==
    /\ pc = "now"
    /\ \E ok \in BOOLEAN, checked \in BOOLEAN :
         IF ~ok THEN Return(Err("now")) /\ UNCHANGED header
         ELSE IF U32AddOverflows(config.lifetime, now) /\ checked
         THEN Return(Panic("attempt to add with overflow")) /\ UNCHANGED header
         ELSE /\ header' = [some |-> FALSE,
                            expire |-> U32AddWrap(config.lifetime, now),
                            time |-> 0, read_now |-> now]
              /\ pc' = "now_ms"
              /\ UNCHANGED result
    /\ UNCHANGED <<entry, is_fee, config, clock, chainAcc, message, emu,
                   dump, res, replay, trace, out, paramVars, netVars, procVars, bcall>>

\* let time = now_ms(); let header = ...; let msg_params = prepare_message_params(...)?;
ComposeHeader ==
    /\ pc = "now_ms"
    /\ header' = [header EXCEPT !.some = TRUE, !.time = now_ms]
    /\ \E ok \in BOOLEAN :
         IF ~ok THEN Return(Err("prepare_message_params"))
         ELSE /\ pc' = IF NeedsEncodedMsg(is_fee, config) THEN "encode" ELSE "expire_print"
              /\ UNCHANGED result
    /\ UNCHANGED <<entry, is_fee, config, clock, chainAcc, message, emu,
                   dump, res, replay, trace, out, paramVars, netVars, procVars, bcall>>

\* let msg = encode_message(ton.clone(), msg_params.clone()).await.map_err(..)?;
EncodeMessage ==
    /\ pc = "encode"
    /\ trace' = Append(trace, "encode_message")
    /\ \E ok \in BOOLEAN :
         LET r == IF ok THEN Ok("") ELSE Err("failed to create inbound message")
         IN  IF EncodeErrorReturns(r)
             THEN Return(r) /\ UNCHANGED <<message, encodings>>
             ELSE /\ message' = IF ok THEN Encode(header) ELSE message
                  /\ encodings' = IF ok THEN Append(encodings, Encode(header))
                                  ELSE encodings
                  /\ pc' = AfterEncodePc(is_fee, config)
                  /\ UNCHANGED result
    /\ UNCHANGED <<entry, is_fee, config, clock, chainAcc, header, emu,
                   dump, res, replay, out, paramVars, remote, events, procVars, bcall>>

\* emulate_locally(ton.clone(), addr, msg.message.clone(), is_fee).await?;
\* if is_fee { return Ok(Value::Null); }
Emulate ==
    /\ pc = "emulate"
    /\ \E fetchOk \in BOOLEAN, addrOk \in BOOLEAN, serOk \in BOOLEAN, execOk \in BOOLEAN :
         LET e == EmulateLocally(is_fee, fetchOk, addrOk, serOk, execOk)
         IN  /\ emu' = e.emu
             /\ trace' = trace \o e.calls
             /\ out' = out \o e.lines
             /\ IF EmulateErrorReturns(is_fee, e.res) THEN Return(e.res)
                ELSE IF EmulateReturnsNull(is_fee) THEN Return(Ok("null"))
                ELSE pc' = AfterEmulatePc(config) /\ UNCHANGED result
             /\ chainAcc' = IF e.emu.executorRun
                            THEN ChainAfterLocalRun(chainAcc, ExecutedState(chainAcc))
                            ELSE chainAcc
    /\ UNCHANGED <<entry, is_fee, config, clock, header, message,
                   dump, res, replay, paramVars, netVars, procVars, bcall>>

-----------------------------------------------------------------------------
(* send_message_and_wait *)

\* if !config.async_call { wait_for_transaction(..) } else { Ok(json!({})) }
WaitsForTransaction_Always(cfg) == TRUE

WaitsForTransaction(cfg) == ~cfg.async_call

\* result.decoded.and_then(|d| d.output).unwrap_or(json!({}))
DecodedOutput_NullWhenAbsent(decoded) == IF decoded THEN "decoded" ELSE "null"

DecodedOutput(decoded) == IF decoded THEN "decoded" ELSE "{}"

\* println!("Processing... "); send_message(..).await.map_err(..)?;
SendMessage ==
    /\ pc = "send"
    /\ out' = out \o Println(config, "Processing... ")
    /\ trace' = Append(trace, "send_message")
    /\ \E ok \in BOOLEAN :
         /\ IF ~ok THEN Return(Err("send_message error"))
            ELSE IF WaitsForTransaction(config) THEN pc' = "wait" /\ UNCHANGED result
            ELSE Return(Ok("{}"))
         /\ remote' = IF ok THEN [remote EXCEPT !.sent = TRUE, !.message = message]
                      ELSE remote
         /\ events' = events \o SentEvents(SendMessageSendEvents, ok)
    /\ UNCHANGED <<entry, is_fee, config, clock, chainAcc, header, message, emu,
                   dump, res, replay, paramVars, encodings, procVars, bcall>>

\* wait_for_transaction(..).await.map_err(..)?; Ok(decoded output or {})
WaitForTransaction ==
    /\ pc = "wait"
    /\ trace' = Append(trace, "wait_for_transaction")
    /\ \E ok \in BOOLEAN, decoded \in BOOLEAN :
         IF ~ok THEN Return(Err("wait_for_transaction error"))
         ELSE Return(Ok(DecodedOutput(decoded)))
    /\ remote' = [remote EXCEPT !.account = chainAcc, !.time = now_ms]
    /\ UNCHANGED <<entry, is_fee, config, clock, chainAcc, header, message, emu,
                   dump, res, replay, out, paramVars, encodings, events, procVars, bcall>>

-----------------------------------------------------------------------------
(* call_contract_with_client, after the encoded-message block *)

\* let dump = if config.debug_fail { .. } else { None };
NeedsCapture_Never(cfg) == FALSE

NeedsCapture(cfg) == cfg.debug_fail

\* if !config.is_json { print!("Expire at: "); .. }
PrintExpire ==
    /\ pc = "expire_print"
    /\ out' = out \o Println(config, "Expire at: ")
    /\ pc' = IF NeedsCapture(config) THEN "capture" ELSE "process"
    /\ UNCHANGED <<entry, is_fee, config, clock, chainAcc, header, message, emu,
                   dump, res, replay, result, trace, paramVars, netVars, procVars, bcall>>

\* the body of `if config.debug_fail`: account, config account, bc_config, now
\* the ? after each step of the pre-capture
CaptureErrorReturns_Ignored(r) == FALSE

CaptureErrorReturns(r) == r.kind = "err"

\* accFetch, cfgFetch: query_account_field returned Ok; accOk: the account
\* was deserialized and serialized again; cfgOk: the config account was
\* deserialized and the blockchain config constructed
CaptureOutcome(accFetch, accOk, cfgFetch, cfgOk) ==
    IF ~accFetch
    THEN [res |-> Err("account unavailable"), calls |-> <<"query_account_field">>]
    ELSE IF ~accOk
    THEN [res |-> Err("Failed to construct account"), calls |-> <<"query_account_field">>]
    ELSE LET q == <<"query_account_field", "query_account_field(CONFIG_ADDR)">>
         IN  IF ~cfgFetch THEN [res |-> Err("config account unavailable"), calls |-> q]
             ELSE IF ~cfgOk THEN [res |-> Err("Failed to construct config"), calls |-> q]
             ELSE [res |-> Ok(""), calls |-> q]

Capture ==
    /\ pc = "capture"
    /\ \E accFetch \in BOOLEAN, accOk \in BOOLEAN, cfgFetch \in BOOLEAN, cfgOk \in BOOLEAN :
         LET c == CaptureOutcome(accFetch, accOk, cfgFetch, cfgOk)
         IN  /\ trace' = trace \o c.calls
             /\ IF CaptureErrorReturns(c.res)
                THEN Return(c.res) /\ UNCHANGED dump
                ELSE IF c.res.kind = "ok" /\ ~message.some
                THEN Return(Panic("called Option::unwrap() on a None value")) /\ UNCHANGED dump
                ELSE /\ dump' = IF c.res.kind = "ok"
                                THEN [some |-> TRUE, bc_config |-> "bc_config",
                                      account |-> chainAcc, message |-> message,
                                      now |-> now_ms]
                                ELSE dump
                     /\ pc' = "process"
                     /\ UNCHANGED result
    /\ UNCHANGED <<entry, is_fee, config, clock, chainAcc, header, message, emu,
                   res, replay, out, paramVars, netVars, procVars, bcall>>

\* process_message(ton.clone(), msg_params, config).await
ProcessResults ==
    {Ok(DecodedOutput(d)) : d \in BOOLEAN} \cup {Err(c) : c \in ErrorCodes}

ProcessMessage ==
    /\ pc = "process"
    /\ trace' = Append(trace, "process_message")
    /\ \E encOk \in BOOLEAN, sent \in BOOLEAN, r \in ProcessResults :
         \* the SDK encodes msg_params first: parameters that encode_message
         \* has already encoded encode again
         IF ~encOk /\ ~message.some
         THEN /\ res' = Err(ENCODE_ERROR_CODE)
              /\ UNCHANGED <<out, remote, encodings, events>>
         ELSE /\ ~sent => r = Err(TRANSPORT_ERROR_CODE)
              /\ res' = r
              /\ encodings' = Append(encodings, Encode(header))
              /\ remote' = IF sent
                           THEN [sent |-> TRUE, message |-> Encode(header),
                                 account |-> chainAcc, time |-> now_ms]
                           ELSE remote
              /\ events' = events \o SentEvents(ProcessMessageSendEvents, sent)
              /\ out' = out \o ProcessCallback(config, SentEvents(ProcessMessageSendEvents, sent))
    /\ pc' = "after_process"
    /\ UNCHANGED <<entry, is_fee, config, clock, chainAcc, header, message, emu,
                   dump, replay, result, paramVars, procVars, bcall>>

\* the debug branch, then res.map_err(..)
Replay ==
    /\ pc = "after_process"
    /\ ReplayTriggered(config, res)
    /\ \E msgOk \in BOOLEAN, execOk \in BOOLEAN :
         IF ~dump.some
         THEN /\ Return(Panic("called Option::unwrap() on a None value"))
              /\ out' = out \o Println(config, "Execution failed. Starting debug...")
              /\ replay' = [replay EXCEPT !.entered = TRUE, !.at = now_ms]
              /\ UNCHANGED <<trace, chainAcc>>
         ELSE IF ~msgOk
         THEN /\ Return(Err("failed to construct message"))
              /\ out' = out \o Println(config, "Execution failed. Starting debug...")
              /\ replay' = [replay EXCEPT !.entered = TRUE, !.at = now_ms]
              /\ UNCHANGED <<trace, chainAcc>>
         ELSE /\ Return(res)
              /\ trace' = Append(trace, "execute_with_libs_and_params")
              /\ replay' = [entered |-> TRUE, executed |-> TRUE, message |-> dump.message,
                            block_lt |-> ReplayNow(dump, now_ms),
                            block_unixtime |-> (ReplayNow(dump, now_ms) \div MsPerSec) % U32Mod,
                            account |-> ReplayAccount(dump, chainAcc),
                            last_tr_lt |-> ReplayNow(dump, now_ms),
                            seed_block |-> 0,
                            bc_config |-> dump.bc_config,
                            account_after |-> ExecutedState(ReplayAccount(dump, chainAcc)),
                            at |-> now_ms]
              /\ chainAcc' = ChainAfterLocalRun(chainAcc,
                                 ExecutedState(ReplayAccount(dump, chainAcc)))
              /\ out' = out \o Println(config, "Execution failed. Starting debug...")
                            \o Println(config, IF execOk THEN "Debug finished." ELSE "Debug failed")
                            \o Println(config, "Log saved to")
    /\ UNCHANGED <<entry, is_fee, config, clock, header, message, emu,
                   dump, res, paramVars, netVars, procVars, bcall>>

\* res.map_err(..) when the debug branch is not taken
Finish ==
    /\ pc = "after_process"
    /\ ~ReplayTriggered(config, res)
    /\ Return(res)
    /\ UNCHANGED <<entry, is_fee, config, clock, chainAcc, header, message, emu,
                   dump, res, replay, trace, out, paramVars, netVars, procVars, bcall>>

-----------------------------------------------------------------------------
(* call_contract_with_msg: everything before send_message_and_wait *)

CallWithMsg ==
    /\ pc = "msg_start"
    /\ \E ok \in BOOLEAN :
         IF ~ok THEN Return(Err("call_contract_with_msg")) /\ UNCHANGED <<message, out>>
         ELSE /\ message' = [some |-> TRUE, expire |-> 0, time |-> 0]
              /\ out' = out \o Println(config, "Calling method")
              /\ pc' = "send"
              /\ UNCHANGED result
    /\ UNCHANGED <<entry, is_fee, config, clock, chainAcc, header, emu,
                   dump, res, replay, trace, paramVars, netVars, procVars, bcall>>

-----------------------------------------------------------------------------
(* The environment *)

Tick ==
    /\ pc \notin {"done", "exit"}
    /\ clock < MsPerSec + MaxClockTicks * ClockStep
    /\ clock' = clock + ClockStep
    /\ UNCHANGED <<entry, is_fee, config, pc, chainAcc, header, message, emu,
                   dump, res, replay, result, trace, out, paramVars, netVars, procVars, bcall>>

AccountChanges ==
    /\ pc \notin {"done", "exit"}
    /\ chainAcc < MaxAccVersion
    /\ chainAcc' = chainAcc + 1
    /\ UNCHANGED <<entry, is_fee, config, pc, clock, header, message, emu,
                   dump, res, replay, result, trace, out, paramVars, netVars, procVars, bcall>>

Next ==
    \/ LoadAbi
    \/ ReadNow
    \/ ComposeHeader
    \/ EncodeMessage
    \/ Emulate
    \/ SendMessage
    \/ WaitForTransaction
    \/ PrintExpire
    \/ Capture
    \/ ProcessMessage
    \/ Replay
    \/ Finish
    \/ CallWithMsg
    \/ Tick
    \/ AccountChanges

Spec == Init /\ [][Next]_vars

-----------------------------------------------------------------------------
(* parse_params, build_json_from_params, parse_integer_param *)

\* longest argument list given to parse_params
MaxParams == 4

\* convert::convert_token scales by 10^TokenDecimals
TokenDecimals == 9

Quote == "\""

Digits == {"0", "1", "2", "3", "4", "5", "6", "7", "8", "9"}

\* str::trim_start_matches(c), str::trim_end_matches(c), str::trim_matches(c)
RECURSIVE TrimStart(_, _)
TrimStart(s, c) ==
    IF s # <<>> /\ Head(s) = c THEN TrimStart(Tail(s), c) ELSE s

RECURSIVE TrimEnd(_, _)
TrimEnd(s, c) ==
    IF s # <<>> /\ s[Len(s)] = c THEN TrimEnd(SubSeq(s, 1, Len(s) - 1), c) ELSE s

TrimMatches(s, c) == TrimEnd(TrimStart(s, c), c)

EndsWith(s, c) == s # <<>> /\ s[Len(s)] = c

Zeros(n) == [i \in 1 .. n |-> "0"]

\* convert::convert_token: the decimal amount times 10^9, as a decimal string
convert_token(s) ==
    IF s # <<>> /\ \A i \in DOMAIN s : s[i] \in Digits
    THEN [kind |-> "ok", val |-> s \o Zeros(TokenDecimals)]
    ELSE [kind |-> "err", val |-> <<>>]

parse_integer_param(value) ==
    LET v == TrimMatches(value, Quote)
    IN  IF EndsWith(v, "T") THEN convert_token(TrimEnd(v, "T"))
        ELSE [kind |-> "ok", val |-> v]

\* value.split(|c| c == ',' || c == '[' || c == ']'), the empty pieces dropped
Delimiters == {",", "[", "]"}

RECURSIVE SplitPieces(_, _)
SplitPieces(s, cur) ==
    IF s = <<>> THEN (IF cur = <<>> THEN <<>> ELSE <<cur>>)
    ELSE IF Head(s) \in Delimiters
         THEN (IF cur = <<>> THEN <<>> ELSE <<cur>>) \o SplitPieces(Tail(s), <<>>)
         ELSE SplitPieces(Tail(s), Append(cur, Head(s)))

\* JSON values: a string or an array of strings
JStr(s) == [t |-> "string", s |-> s, a |-> <<>>]

JArr(a) == [t |-> "array", s |-> <<>>, a |-> a]

\* the for loop over the pieces: Err as soon as one piece fails
ParseArray(value) ==
    LET pieces == SplitPieces(value, <<>>)
        rs == [i \in DOMAIN pieces |-> parse_integer_param(pieces[i])]
    IN  IF \E i \in DOMAIN rs : rs[i].kind = "err"
        THEN [kind |-> "err", val |-> JArr(<<>>)]
        ELSE [kind |-> "ok", val |-> JArr([i \in DOMAIN rs |-> rs[i].val])]

\* the match on input.kind
ParamValue(kind, value) ==
    IF kind \in {"uint", "int"}
    THEN LET r == parse_integer_param(value)
         IN  [kind |-> r.kind, val |-> JStr(r.val)]
    ELSE IF kind = "uint[]" THEN ParseArray(value)
    ELSE [kind |-> "ok", val |-> JStr(value)]

\* iter.find(|x| x.trim_start_matches('-') == input.name): the index of the
\* first matching token, 0 when there is none
FindName(params_vec, name) ==
    LET hits == {i \in DOMAIN params_vec : TrimStart(params_vec[i], "-") = name}
    IN  IF hits = {} THEN 0 ELSE CHOOSE i \in hits : \A j \in hits : i <= j

\* the for loop over the inputs, from input k on, params_json being acc
RECURSIVE BuildFrom(_, _, _, _)
BuildFrom(params_vec, inputs, k, acc) ==
    IF k > Len(inputs)
    THEN [kind |-> "ok", form |-> "json", raw |-> <<>>, json |-> acc, err |-> ""]
    ELSE LET input == inputs[k]
             at == FindName(params_vec, input.name)
         IN  IF at = 0
             THEN [NoParsed EXCEPT !.kind = "err", !.err = "argument not found"]
             ELSE IF at + 1 > Len(params_vec)
             THEN [NoParsed EXCEPT !.kind = "err", !.err = "argument has no value"]
             ELSE LET v == ParamValue(input.kind, params_vec[at + 1])
                  IN  IF v.kind = "err"
                      THEN [NoParsed EXCEPT !.kind = "err", !.err = "convert_token"]
                      ELSE BuildFrom(params_vec, inputs, k + 1,
                                     [n \in DOMAIN acc \cup {input.name} |->
                                        IF n = input.name THEN v.val ELSE acc[n]])

build_json_from_params(params_vec, inputs, abiOk, methodOk) ==
    IF ~abiOk THEN [NoParsed EXCEPT !.kind = "err", !.err = "failed to parse ABI"]
    ELSE IF ~methodOk
    THEN [NoParsed EXCEPT !.kind = "err", !.err = "failed to load function from abi"]
    ELSE BuildFrom(params_vec, inputs, 1, <<>>)

parse_params(params_vec, inputs, abiOk, methodOk) ==
    IF Len(params_vec) = 1
    THEN [kind |-> "ok", form |-> "raw", raw |-> params_vec[1], json |-> <<>>, err |-> ""]
    ELSE build_json_from_params(params_vec, inputs, abiOk, methodOk)

\* the argument tokens and the method signatures the model draws from
ParamTokens ==
    { <<"-", "-", "a">>, <<"-", "-", "b">>, <<"b">>, <<"1", "T">>, <<"2">>,
      <<"[", "1", "T", ",", "2", "T", "]">>, <<Quote, "1", "T", Quote>>,
      <<"x", "T">> }

Param(n, k) == [name |-> <<n>>, kind |-> k]

Methods ==
    { <<Param("a", "uint")>>, <<Param("a", "int")>>,
      <<Param("a", "uint[]")>>, <<Param("a", "int[]")>>,
      <<Param("a", "other"), Param("b", "uint")>>,
      <<Param("a", "int"), Param("b", "uint[]")>> }

ParamVectors == UNION {[1 .. n -> ParamTokens] : n \in 1 .. MaxParams}

InitParams ==
    /\ args \in [params_vec : ParamVectors, inputs : Methods]
    /\ parsed = NoParsed
    /\ loggerSet = FALSE
    /\ bcall = NoCall
    /\ inv = 1
    /\ entry = "client"
    /\ config = [async_call |-> FALSE, local_run |-> FALSE, debug_fail |-> FALSE,
                 is_json |-> FALSE, lifetime |-> 1]
    /\ is_fee = FALSE
    /\ pc = "parse_params"
    /\ clock = MsPerSec
    /\ chainAcc = 0
    /\ header = NoHeader
    /\ message = NoMessage
    /\ emu = NoEmu
    /\ dump = NoDump
    /\ res = NoResult
    /\ replay = NoReplay
    /\ result = NoResult
    /\ trace = <<>>
    /\ out = <<>>
    /\ remote = NoRemote
    /\ encodings = <<>>
    /\ events = <<>>

ParseParams ==
    /\ pc = "parse_params"
    /\ \E abiOk \in BOOLEAN, methodOk \in BOOLEAN :
         parsed' = parse_params(args.params_vec, args.inputs, abiOk, methodOk)
    /\ pc' = "parsed"
    /\ UNCHANGED <<entry, is_fee, config, clock, chainAcc, header, message, emu,
                   dump, res, replay, result, trace, out, args, netVars, procVars, bcall>>

NextParams == ParseParams

SpecParams == InitParams /\ [][NextParams]_vars

-----------------------------------------------------------------------------
(* debot/interfaces/dinterface.rs: BrowserInterface *)

DigitValue(c) ==
    CASE c = "0" -> 0 [] c = "1" -> 1 [] c = "2" -> 2 [] c = "3" -> 3 [] c = "4" -> 4
      [] c = "5" -> 5 [] c = "6" -> 6 [] c = "7" -> 7 [] c = "8" -> 8 [] c = "9" -> 9

\* the digit loop of u32::from_str_radix(s, 10): acc * 10 + digit, checked
RECURSIVE ParseDigits(_, _)
ParseDigits(s, acc) ==
    IF s = <<>> THEN Ok(acc)
    ELSE IF Head(s) \notin Digits THEN Err("invalid digit found in string")
    ELSE IF acc * 10 + DigitValue(Head(s)) >= U32Mod
         THEN Err("number too large to fit in target type")
    ELSE ParseDigits(Tail(s), acc * 10 + DigitValue(Head(s)))

\* u32::from_str_radix(s, 10): an optional + sign, then digits
from_str_radix(s) ==
    IF s = <<>> THEN Err("cannot parse integer from empty string")
    ELSE IF s \in {<<"+">>, <<"-">>} THEN Err("invalid digit found in string")
    ELSE IF Head(s) = "+" THEN ParseDigits(Tail(s), 0)
    ELSE ParseDigits(s, 0)

\* args["answerId"].as_str().ok_or(..)? parsed as a decimal u32
decode_answer_id_ZeroWhenAbsent(answerId) ==
    IF answerId.kind # "string" THEN Ok(0) ELSE from_str_radix(answerId.str)

decode_answer_id(answerId) ==
    IF answerId.kind # "string" THEN Err("answer id not found in argument list")
    ELSE from_str_radix(answerId.str)

\* the values args["answerId"] can have: absent, a JSON value that is not a
\* string, or a string
AnswerIds ==
    {[kind |-> "absent", str |-> <<>>], [kind |-> "number", str |-> <<"1">>]}
        \cup {[kind |-> "string", str |-> s] :
                s \in {<<>>, <<"0">>, <<"1">>, <<"3">>, <<"0", "2">>, <<"+", "2">>, <<"+">>,
                       <<"-", "1">>, <<"x">>, <<"1", "x">>, <<"9">>, <<"1", "0">>, <<"9", "9">>}}

\* what ManifestProcessor::next_input can return
InterfaceCallNeeded == [kind |-> "err", params |-> "InterfaceCallNeeded"]

ProcessorAnswers ==
    {InterfaceCallNeeded, [kind |-> "err", params |-> "other ProcessorError"],
     [kind |-> "ok", params |-> "none"], [kind |-> "ok", params |-> "params"]}

\* what the wrapped interface can return
InnerResults == {Ok("inner answer"), Ok("other inner answer"), Err("inner error")}

\* Err(ProcessorError::InterfaceCallNeeded) => self.inner_interface.call(..)
InvokesInner_OnAnyError(answer) == answer.kind = "err"

InvokesInner(answer) == answer = InterfaceCallNeeded

\* params.unwrap_or(json!({}))
AnswerParams_NullWhenAbsent(params) == IF params = "none" THEN "null" ELSE params

AnswerParams(params) == IF params = "none" THEN "{}" ELSE params

\* BrowserInterface::call
BrowserCall ==
    /\ \E func \in {"get", "select"}, answerId \in AnswerIds,
          answer \in ProcessorAnswers, inner \in InnerResults :
         bcall' = [made |-> TRUE, func |-> func, answerId |-> answerId,
                   answer |-> answer, processorCalls |-> 1,
                   innerCalls |-> IF InvokesInner(answer) THEN 1 ELSE 0,
                   inner |-> IF InvokesInner(answer) THEN inner ELSE NoResult,
                   result |->
                     IF InvokesInner(answer) THEN inner
                     ELSE IF answer.kind = "err" THEN Err(answer.params)
                     ELSE LET id == decode_answer_id(answerId)
                          IN  IF id.kind = "err" THEN id
                              ELSE Ok(<<id.val, AnswerParams(answer.params)>>)]
    /\ UNCHANGED <<callVars, paramVars, netVars, procVars>>

NextBrowser == BrowserCall

\* no interface was called yet; the call engine is idle
InitBrowser ==
    /\ Init
    /\ entry = "client"
    /\ ~is_fee
    /\ config = [async_call |-> FALSE, local_run |-> FALSE, debug_fail |-> FALSE,
                 is_json |-> FALSE, lifetime |-> 1]

SpecBrowser == InitBrowser /\ [][NextBrowser]_vars

-----------------------------------------------------------------------------
(* Reading the trace *)

Has(ev) == \E i \in DOMAIN trace : trace[i] = ev

Count(ev) == Cardinality({i \in DOMAIN trace : trace[i] = ev})

\* every occurrence of a comes before every occurrence of b
Precedes(a, b) ==
    \A i, j \in DOMAIN trace : (trace[i] = a /\ trace[j] = b) => i < j

\* the network submitter was invoked
Submitted ==
    Has("send_message") \/ Has("wait_for_transaction") \/ Has("process_message")

Printed(line) == \E i \in DOMAIN out : out[i] = line

ComposeFailures ==
    {Err("load_abi"), Err("now"), Panic("attempt to add with overflow"),
     Err("prepare_message_params")}

-----------------------------------------------------------------------------
(* The claims *)

\* C1: with is_fee = true, whatever async_call, local_run and debug_fail are
\* and however encoding and emulation end, call_contract_with_client never
\* calls send_message, wait_for_transaction or process_message.
C1_FeeNeverSubmits ==
    (entry = "client" /\ is_fee) =>
        /\ ~Has("send_message")
        /\ ~Has("wait_for_transaction")
        /\ ~Has("process_message")
        /\ pc \notin {"send", "wait", "expire_print", "capture", "process", "after_process"}

C1_Witness ==
    /\ entry = "client" /\ is_fee
    /\ config.async_call /\ config.local_run /\ config.debug_fail
    /\ pc = "done" /\ result = Ok("null") /\ emu.executorRun

C3_Original ==
    (entry = "client" /\ pc = "done") =>
        (replay.executed <=> (dump.some /\ res = Err(SDK_EXECUTION_ERROR_CODE)))

\* C3 amended: the debug branch is entered if and only if the diagnostics
\* were pre-captured and process_message failed with SDK_EXECUTION_ERROR_CODE;
\* inside it the executor is executed unless the message cannot be
\* reconstructed from base64, and then the call returns that failure; on
\* success or on any other error no replay step is performed.
C3_ReplayOnlyOnExecutionError ==
    /\ replay.entered => pc = "done"
    /\ replay.executed => replay.entered
    /\ Has("execute_with_libs_and_params") <=> replay.executed
    /\ (entry = "client" /\ pc = "done") =>
         /\ replay.entered <=> (dump.some /\ res = Err(SDK_EXECUTION_ERROR_CODE))
         /\ (replay.entered /\ ~replay.executed)
              => result = Err("failed to construct message")
         /\ res.kind = "ok" => ~Printed("Execution failed. Starting debug...")

C3_Witness ==
    /\ pc = "done" /\ replay.executed /\ dump.some
    /\ res = Err(SDK_EXECUTION_ERROR_CODE)

\* C4 as stated: with debug_fail, on every path that submits (async, local_run
\* then submission, default) the account and the chain configuration are
\* captured before the message is submitted.
C4_Original ==
    (entry = "client" /\ config.debug_fail /\ Submitted) =>
        /\ dump.some
        /\ Precedes("query_account_field(CONFIG_ADDR)", "send_message")
        /\ Precedes("query_account_field(CONFIG_ADDR)", "process_message")

\* C4 amended: with debug_fail and without async_call, on every path that
\* submits (local_run then submission, default) the account and the chain
\* configuration are captured before the message is submitted; on the
\* asynchronous path nothing is captured.
C4_CaptureBeforeSubmission ==
    (entry = "client" /\ config.debug_fail) =>
        /\ (~config.async_call /\ Submitted) =>
             /\ dump.some
             /\ Has("query_account_field(CONFIG_ADDR)")
             /\ Precedes("query_account_field", "process_message")
             /\ Precedes("query_account_field(CONFIG_ADDR)", "process_message")
             /\ ~Has("send_message")
        /\ config.async_call =>
             (~dump.some /\ ~Has("query_account_field(CONFIG_ADDR)"))

C4_Witness ==
    /\ entry = "client" /\ config.debug_fail /\ config.local_run /\ ~config.async_call
    /\ Has("process_message") /\ dump.some /\ emu.ran

\* C5: whenever the debug branch is entered, the value returned is the
\* original error of process_message, whatever the replay did.
C5_ReplayKeepsOriginalError ==
    (pc = "done" /\ replay.entered) => result = res

\* C6: with async_call (and without is_fee) the call never invokes
\* wait_for_transaction or process_message, and once send_message has
\* accepted the message it returns {}.
C6_AsyncReturnsEmpty ==
    (config.async_call /\ ~is_fee) =>
        /\ ~Has("wait_for_transaction")
        /\ ~Has("process_message")
        /\ pc # "wait"
        /\ (pc = "done" /\ Has("send_message")) =>
             result \in {Ok("{}"), Err("send_message error")}

C6_Witness ==
    /\ entry = "client" /\ config.async_call /\ ~is_fee
    /\ pc = "done" /\ Has("send_message") /\ result = Ok("{}")

\* C7 as stated: when the account is absent, with fee mode an empty account
\* is synthesized and the executor is run on it; without fee mode the
\* emulation fails with the account-unavailable error and the executor is not
\* run; an account is synthesized only when absent and in fee mode.
C7_Original ==
    emu.ran =>
        /\ (emu.absent /\ is_fee) => (emu.synthesized /\ emu.executorRun)
        /\ (emu.absent /\ ~is_fee) =>
             (emu.res = Err("account unavailable") /\ ~emu.executorRun)
        /\ emu.synthesized => (emu.absent /\ is_fee)

\* C7 amended: when the account is absent, with fee mode the emulation never
\* fails with the account-unavailable error: an empty account is synthesized
\* and the executor is run on it, unless the address cannot be decoded or the
\* empty account cannot be serialized, and then the emulation fails with that
\* error and the executor is not run; without fee mode the emulation fails
\* with the account-unavailable error and the executor is not run; an account
\* is synthesized only when absent and in fee mode.
C7_SynthesisOnlyInFeeMode ==
    emu.ran =>
        /\ (emu.absent /\ is_fee) =>
             /\ emu.res # Err("account unavailable")
             /\ emu.executorRun <=> emu.synthesized
             /\ ~emu.synthesized =>
                  emu.res \in {Err("couldn't decode address"),
                               Err("couldn't create dummy account")}
             /\ emu.synthesized => emu.unlimited_balance
        /\ (emu.absent /\ ~is_fee) =>
             (emu.res = Err("account unavailable") /\ ~emu.executorRun)
        /\ emu.synthesized => (emu.absent /\ is_fee)
        /\ emu.executorRun <=> Has("run_executor")

C7_Witness ==
    /\ emu.ran /\ emu.absent /\ is_fee /\ emu.synthesized /\ emu.executorRun
    /\ result = Ok("null")

\* C8: with is_fee, async_call, local_run and debug_fail all false, a call
\* whose message parameters were composed invokes process_message exactly once
\* and nothing else (no emulation, no account fetch, no separate send or
\* wait), prints no fee field, and on success returns the decoded output, or
\* {} when nothing was decoded.
C8_DefaultPath ==
    (entry = "client" /\ ~is_fee /\ ~config.async_call /\ ~config.local_run
       /\ ~config.debug_fail) =>
        /\ trace \in {<<>>, <<"process_message">>}
        /\ ~emu.ran /\ ~dump.some /\ ~replay.entered
        /\ \A i \in DOMAIN FeeLines : ~Printed(FeeLines[i])
        /\ pc = "done" =>
             \/ trace = <<>> /\ result \in ComposeFailures
             \/ /\ trace = <<"process_message">>
                /\ result = res
                /\ result.kind = "ok" => result.val \in {"decoded", "{}"}

C8_Witness ==
    /\ entry = "client" /\ ~is_fee /\ ~config.async_call /\ ~config.local_run
    /\ ~config.debug_fail
    /\ pc = "done" /\ trace = <<"process_message">> /\ result = Ok("{}")

\* C9 as stated: for every lifetime L > 0 the composed header has
\* expire = now() + L, without wrap-around, and expire > time.
C9_Original ==
    header.some =>
        /\ header.expire = header.read_now + config.lifetime
        /\ header.expire > header.time

\* C9 amended: for every lifetime L > 0 the composed header has
\* expire = (now() + L) mod 2^32, which is now() + L exactly when the sum fits
\* in 32 bits, and time is the millisecond clock read after now(), so
\* time >= 1000 * now(); expire > time does not follow.
C9_ExpireIsWrappedSum ==
    header.some =>
        /\ header.expire = (header.read_now + config.lifetime) % U32Mod
        /\ header.read_now + config.lifetime < U32Mod
             => header.expire = header.read_now + config.lifetime
        /\ header.time >= MsPerSec * header.read_now
        /\ header.time <= now_ms

C9_Witness ==
    /\ header.some
    /\ header.read_now + config.lifetime >= U32Mod
    /\ header.expire < header.read_now

\* the token bound to the input named name: the one after the name found
BoundValue(name) == args.params_vec[FindName(args.params_vec, name) + 1]

\* C10: when the arguments are name/value tokens, every scalar int or uint
\* argument is passed through the token conversion, and in every array
\* argument of an integer type (int[] as well as uint[]) the elements, split
\* at commas and brackets, that carry the suffix T are converted; values
\* without the suffix pass through unchanged.
C10_IntegerArgumentsConverted ==
    (pc = "parsed" /\ parsed.kind = "ok" /\ parsed.form = "json") =>
        \A k \in DOMAIN args.inputs :
            LET input == args.inputs[k]
                value == BoundValue(input.name)
                pieces == SplitPieces(value, <<>>)
                converted == JArr([i \in DOMAIN pieces |-> parse_integer_param(pieces[i]).val])
                hasToken == \E i \in DOMAIN pieces : EndsWith(TrimMatches(pieces[i], Quote), "T")
            IN  /\ input.kind \in {"uint", "int"} =>
                     parsed.json[input.name] = JStr(parse_integer_param(value).val)
                /\ input.kind \in {"uint[]", "int[]"} =>
                     IF hasToken THEN parsed.json[input.name] = converted
                     ELSE parsed.json[input.name] \in {converted, JStr(value)}

\* the errors of composing and encoding the message
EncodingFailures ==
    {Err("load_abi"), Err("prepare_message_params"),
     Err("failed to create inbound message"), Err(ENCODE_ERROR_CODE)}

\* C11: when load_abi, prepare_message_params or the encoding of the message
\* fails, the call returns that error and no account was fetched, nothing was
\* emulated, nothing reached the network, and the encoding was not tried again.
C11_EncodingFailsBeforeNetwork ==
    (entry = "client" /\ pc = "done" /\ result \in EncodingFailures) =>
        /\ ~Has("query_account_field")
        /\ ~Has("query_account_field(CONFIG_ADDR)")
        /\ ~Has("run_executor")
        /\ ~Has("send_message")
        /\ ~Has("wait_for_transaction")
        /\ ~remote.sent
        /\ ~emu.ran /\ ~dump.some /\ ~replay.entered
        /\ events = <<>>
        /\ encodings = <<>>
        /\ Count("encode_message") + Count("process_message") <= 1

C11_Witness ==
    /\ entry = "client" /\ pc = "done"
    /\ config.debug_fail /\ config.local_run
    /\ result = Err("failed to create inbound message")
    /\ trace = <<"encode_message">>

-----------------------------------------------------------------------------
(* call_contract_with_result, and a process that runs several invocations *)

MaxInvocations == 2

LOGGER_ERROR == "Failed to set logger"

\* log::set_boxed_logger fails when the process already has a logger
SetLoggerFails(installed) == installed

\* let ton = if config.debug_fail { set_max_level; set_boxed_logger(..)?;
\* create_client(config)? } else { create_client_verbose(config)? };
CreateClient ==
    /\ pc = "create_client"
    /\ \E ok \in BOOLEAN :
         IF config.debug_fail /\ SetLoggerFails(loggerSet)
         THEN Return(Err(LOGGER_ERROR)) /\ UNCHANGED loggerSet
         ELSE /\ loggerSet' = (loggerSet \/ config.debug_fail)
              /\ IF ok THEN pc' = "load_abi" /\ UNCHANGED result
                 ELSE Return(Err("create_client"))
    /\ UNCHANGED <<entry, is_fee, config, clock, chainAcc, header, message, emu,
                   dump, res, replay, trace, out, inv, paramVars, netVars, bcall>>

\* the process starts its next invocation: the arguments and locals are new,
\* the clock, the network and the process's logger stay
StartNext ==
    /\ pc \in {"done", "exit"}
    /\ inv < MaxInvocations
    /\ inv' = inv + 1
    /\ entry' \in {"result", "msg"}
    /\ config' \in Configs
    /\ is_fee' \in BOOLEAN
    /\ entry' = "msg" =>
         (~is_fee' /\ config'.lifetime = 1 /\ ~config'.local_run /\ ~config'.debug_fail)
    /\ pc' = IF entry' = "result" THEN "create_client" ELSE "msg_start"
    /\ header' = NoHeader
    /\ message' = NoMessage
    /\ emu' = NoEmu
    /\ dump' = NoDump
    /\ res' = NoResult
    /\ replay' = NoReplay
    /\ result' = NoResult
    /\ trace' = <<>>
    /\ out' = <<>>
    /\ remote' = NoRemote
    /\ encodings' = <<>>
    /\ events' = <<>>
    /\ UNCHANGED <<clock, chainAcc, loggerSet, paramVars, bcall>>

\* print_json_result: a result that is not null is printed, as "Result: .."
\* or, with is_json, as the bare document
print_json_result_NoNullCheck(value, cfg) ==
    IF cfg.is_json THEN <<"json result">> ELSE <<"Result">>

print_json_result(value, cfg) ==
    IF value = "null" THEN <<>>
    ELSE IF cfg.is_json THEN <<"json result">> ELSE <<"Result">>

\* call_contract after call_contract_with_result has returned: an error is
\* passed on through ?, otherwise "Succeeded." and the result are printed
CallContractReturns ==
    /\ pc = "done"
    /\ entry = "result"
    /\ pc' = "exit"
    /\ out' = IF result.kind = "ok"
              THEN out \o Println(config, "Succeeded.") \o print_json_result(result.val, config)
              ELSE out
    /\ UNCHANGED <<entry, is_fee, config, clock, chainAcc, header, message, emu,
                   dump, res, replay, result, trace, inv, loggerSet, paramVars, netVars, bcall>>

InitProcess ==
    /\ entry \in {"result", "msg"}
    /\ config \in Configs
    /\ is_fee \in BOOLEAN
    /\ entry = "msg" => (~is_fee /\ config.lifetime = 1 /\ ~config.local_run /\ ~config.debug_fail)
    /\ pc = IF entry = "result" THEN "create_client" ELSE "msg_start"
    /\ clock = MsPerSec
    /\ chainAcc = 0
    /\ header = NoHeader
    /\ message = NoMessage
    /\ emu = NoEmu
    /\ dump = NoDump
    /\ res = NoResult
    /\ replay = NoReplay
    /\ result = NoResult
    /\ trace = <<>>
    /\ out = <<>>
    /\ remote = NoRemote
    /\ encodings = <<>>
    /\ events = <<>>
    /\ args = NoArgs
    /\ parsed = NoParsed
    /\ loggerSet = FALSE
    /\ bcall = NoCall
    /\ inv = 1

NextProcess ==
    \/ CreateClient
    \/ StartNext
    \/ CallContractReturns
    \/ Next

SpecProcess == InitProcess /\ [][NextProcess]_vars

\* C15: an invocation's outcome does not depend on the invocations the same
\* process ran before it; run alone, an invocation never fails to install
\* the debug logger, so no invocation does.
C15_InvocationsIndependent ==
    result # Err(LOGGER_ERROR)

\* C12 as stated: the account snapshot the replay runs on is the account's
\* state on the network when the remote call failed.
C12_Original ==
    replay.executed => replay.account = remote.account

\* C12 amended: the account snapshot and the chain configuration the replay
\* runs on are the ones fetched before the submission; if the account changes
\* on the network between that fetch and the remote execution, the replay
\* still runs on the earlier copy.
C12_ReplayUsesPreCapturedState ==
    replay.executed =>
        /\ replay.account = dump.account
        /\ replay.bc_config = dump.bc_config
        /\ dump.account <= remote.account
        /\ Precedes("query_account_field", "process_message")
        /\ Precedes("query_account_field(CONFIG_ADDR)", "process_message")
        /\ Count("query_account_field(CONFIG_ADDR)") = 1

C12_Witness ==
    /\ replay.executed
    /\ replay.account = dump.account
    /\ replay.account < remote.account

\* C13 as stated: the message is encoded once in an invocation, and the
\* message the replay re-executes is the one encoding that was submitted.
C13_Original ==
    /\ Len(encodings) <= 1
    /\ replay.executed => encodings = <<replay.message>>

\* C13 amended: the message is encoded at most twice in an invocation: once
\* by encode_message when is_fee, async_call, local_run or debug_fail is set,
\* and once more inside process_message on the wait-for-confirmation path;
\* both happen exactly when local_run or debug_fail is set without is_fee and
\* async_call. The two encodings are built from the same parameters and
\* header; the replay re-executes the first, the network received the second.
C13_EncodedAtMostTwice ==
    /\ Len(encodings) <= 2
    /\ Len(encodings) = Count("encode_message") + Count("process_message")
         \/ res = Err(ENCODE_ERROR_CODE)
         \/ result = Err("failed to create inbound message")
    /\ Len(encodings) = 2 =>
         /\ encodings[1] = encodings[2]
         /\ encodings[1] = message
         /\ ~is_fee /\ ~config.async_call
         /\ config.local_run \/ config.debug_fail
    /\ (entry = "client" /\ remote.sent) =>
         remote.message = encodings[Len(encodings)]
    /\ replay.executed =>
         /\ Len(encodings) = 2
         /\ replay.message = encodings[1]
         /\ remote.message = encodings[2]

C13_Witness ==
    /\ replay.executed
    /\ Len(encodings) = 2
    /\ replay.message = remote.message

\* C14 as stated: block_lt, last_tr_lt and the block time of the replay come
\* from a clock read after the remote failure, so they are not smaller than
\* the time of the failure.
C14_Original ==
    replay.executed =>
        /\ replay.block_lt >= remote.time
        /\ replay.last_tr_lt >= remote.time

\* C14 amended: block_lt, last_tr_lt and the block time of the replay come
\* from the clock read during the pre-capture, before the submission, so they
\* are never greater than the time at which the remote call failed.
C14_ReplayTimeIsCaptureTime ==
    replay.executed =>
        /\ replay.block_lt = dump.now
        /\ replay.last_tr_lt = dump.now
        /\ replay.block_unixtime = (dump.now \div MsPerSec) % U32Mod
        /\ dump.now <= remote.time
        /\ remote.time <= replay.at

C14_Witness ==
    /\ replay.executed
    /\ replay.block_lt < remote.time
    /\ remote.time < replay.at

\* C16: the execution parameters and the inputs of the replay are determined
\* by the captured (bc_config, account, message, now) alone: the seed is zero
\* and no clock read or account state after the capture enters them.
C16_ReplayDeterministic ==
    replay.executed =>
        /\ replay.bc_config = dump.bc_config
        /\ replay.account = dump.account
        /\ replay.message = dump.message
        /\ <<replay.block_lt, replay.last_tr_lt>> = <<dump.now, dump.now>>
        /\ replay.block_unixtime = (dump.now \div MsPerSec) % U32Mod
        /\ replay.seed_block = 0
        /\ replay.account_after = ExecutedState(dump.account)

C16_Witness ==
    /\ replay.executed
    /\ replay.at > dump.now
    /\ chainAcc > dump.account
    /\ replay.block_lt = dump.now /\ replay.account = dump.account

\* C18 as stated: every submission, asynchronous or waiting, delivers a
\* DidSend notification.
C18_Original ==
    remote.sent => events = <<"DidSend">>

\* C18 amended: a submission through process_message (the
\* wait-for-confirmation path) delivers one DidSend notification, which is
\* printed as MessageId unless is_json; a submission through
\* send_message_and_wait (the asynchronous path) asks for no events and
\* delivers none. The notification only prints.
C18_DidSendOnlyFromProcessMessage ==
    /\ Len(events) <= 1
    /\ events # <<>> => (remote.sent /\ Has("process_message"))
    /\ (Has("process_message") /\ remote.sent) => events = <<"DidSend">>
    /\ Has("send_message") => events = <<>>
    /\ Printed("MessageId") <=> (events = <<"DidSend">> /\ ~config.is_json)

C18_Witness ==
    /\ remote.sent /\ Has("process_message")
    /\ events = <<"DidSend">>
    /\ config.is_json /\ ~Printed("MessageId")
    /\ pc = "done" /\ result.kind = "ok"

\* the step of the invocation a call belongs to
Stage(ev) ==
    CASE ev = "encode_message" -> 1
      [] ev \in {"query_account_field", "run_executor",
                 "query_account_field(CONFIG_ADDR)"} -> 2
      [] ev \in {"send_message", "wait_for_transaction", "process_message"} -> 3
      [] ev = "execute_with_libs_and_params" -> 4

\* C19: in one invocation the message is composed, then emulated (if at
\* all), then submitted (if at all), then replayed (if at all), each at most
\* once; nothing is emulated after the submission and nothing is replayed
\* before the submission has failed.
C19_StepsInOrder ==
    /\ Count("encode_message") <= 1
    /\ Count("run_executor") <= 1
    /\ Count("send_message") + Count("process_message") <= 1
    /\ Count("wait_for_transaction") <= 1
    /\ Count("execute_with_libs_and_params") <= 1
    /\ \A i, j \in DOMAIN trace : i < j => Stage(trace[i]) <= Stage(trace[j])
    /\ Precedes("send_message", "wait_for_transaction")
    /\ (entry = "client" /\ trace # <<>>) => header.some
    /\ emu.ran => (Has("encode_message") /\ message.some)
    /\ replay.entered => (Has("process_message") /\ res.kind = "err")

C19_Witness ==
    trace = <<"encode_message", "query_account_field", "run_executor",
              "query_account_field", "query_account_field(CONFIG_ADDR)",
              "process_message", "execute_with_libs_and_params">>

\* the calls that submit to the network
Submissions ==
    Count("send_message") + Count("wait_for_transaction") + Count("process_message")

\* C20: the steps that run emulate_locally or the replay submit nothing and
\* leave the account on the network and the captured snapshot as they were;
\* the replay changes only its own copy of the account.
C20_NoWriteBack ==
    [][((pc = "emulate" /\ pc' # pc) \/ (pc = "after_process" /\ replay'.entered))
         => /\ chainAcc' = chainAcc
            /\ dump' = dump
            /\ remote' = remote
            /\ Submissions' = Submissions
            /\ replay'.executed =>
                 (replay'.account = dump.account /\ replay'.account_after # dump.account)]_vars

C20_Witness ==
    /\ pc = "done"
    /\ emu.executorRun
    /\ replay.executed
    /\ replay.account_after # replay.account
    /\ chainAcc <= MaxAccVersion

\* the six fields of the fee breakdown
FeeFields == {"in_msg_fwd_fee", "storage_fee", "gas_fee", "out_msgs_fwd_fee",
              "total_account_fees", "total_output"}

\* how many times a line was printed
CountOut(line) == Cardinality({i \in DOMAIN out : out[i] = line})

\* C21 as stated: every invocation with is_fee prints each of the six fee
\* fields once and returns null.
C21_Original ==
    (is_fee /\ pc \in {"done", "exit"}) =>
        /\ \A f \in FeeFields : CountOut(f) = 1
        /\ result = Ok("null")

\* C21 amended: an invocation with is_fee that succeeds prints each of the
\* six fee fields exactly once, returns null, and call_contract prints no
\* result for it; an invocation with is_fee that fails (before or in the
\* emulation) returns the error and prints no fee field.
C21_FeeOutputOnSuccess ==
    (is_fee /\ pc \in {"done", "exit"}) =>
        IF result.kind = "ok"
        THEN /\ result = Ok("null")
             /\ \A f \in FeeFields : CountOut(f) = 1
             /\ ~Printed("Result") /\ ~Printed("json result")
             /\ pc = "exit" => (Printed("Succeeded.") <=> ~config.is_json)
        ELSE /\ \A f \in FeeFields : CountOut(f) = 0
             /\ ~Printed("Succeeded.")

C21_Witness ==
    /\ is_fee /\ pc = "exit" /\ result = Ok("null")
    /\ \A f \in FeeFields : CountOut(f) = 1
    /\ config.is_json
    /\ out = FeeLines

\* the errors of the pre-capture
CaptureFailures ==
    {Err("account unavailable"), Err("Failed to construct account"),
     Err("config account unavailable"), Err("Failed to construct config")}

\* C22: when the pre-capture of a debug_fail call fails, the call returns
\* that error and nothing is submitted; a debug_fail call reaches
\* process_message only with a complete dump.
C22_CaptureFailureNeverSubmits ==
    /\ (pc = "done" /\ result \in CaptureFailures) =>
         (~Submitted /\ ~remote.sent /\ events = <<>> /\ ~dump.some)
    /\ (config.debug_fail /\ Has("process_message")) =>
         /\ dump.some
         /\ Count("query_account_field(CONFIG_ADDR)") = 1
         /\ Precedes("query_account_field(CONFIG_ADDR)", "process_message")

C22_Witness ==
    /\ pc = "done" /\ config.debug_fail /\ ~config.local_run
    /\ result = Err("Failed to construct config")
    /\ trace = <<"encode_message", "query_account_field",
                 "query_account_field(CONFIG_ADDR)">>
    /\ ~Submitted /\ ~dump.some

\* a string of decimal digits, with an optional + sign
IsDecimal(s) ==
    LET d == IF s # <<>> /\ Head(s) = "+" THEN Tail(s) ELSE s
    IN  d # <<>> /\ \A i \in DOMAIN d : d[i] \in Digits

\* the value of a string of decimal digits
RECURSIVE DecimalValue(_)
DecimalValue(d) ==
    IF d = <<>> THEN 0
    ELSE DecimalValue(SubSeq(d, 1, Len(d) - 1)) * 10 + DigitValue(d[Len(d)])

\* C23: a call of a BrowserInterface consults the processor once; the inner
\* interface is invoked exactly when the processor answers
\* InterfaceCallNeeded, and its result is returned as it is; another
\* processor error is returned as an error; a processor answer is returned
\* with the answerId decoded from the arguments and with {} for absent
\* parameters, and fails when answerId is absent, not a string of decimal
\* digits, or too large for a u32.
C23_BrowserCall ==
    bcall.made =>
        /\ bcall.processorCalls = 1
        /\ bcall.innerCalls = (IF bcall.answer = InterfaceCallNeeded THEN 1 ELSE 0)
        /\ bcall.answer = InterfaceCallNeeded => bcall.result = bcall.inner
        /\ (bcall.answer.kind = "err" /\ bcall.answer # InterfaceCallNeeded) =>
             bcall.result.kind = "err"
        /\ bcall.answer.kind = "ok" =>
             LET a == bcall.answerId
                 d == IF a.str # <<>> /\ Head(a.str) = "+" THEN Tail(a.str) ELSE a.str
             IN  IF a.kind = "string" /\ IsDecimal(a.str) /\ DecimalValue(d) < U32Mod
                 THEN bcall.result =
                        Ok(<<DecimalValue(d),
                             IF bcall.answer.params = "none" THEN "{}" ELSE bcall.answer.params>>)
                 ELSE bcall.result.kind = "err"

C23_Witness ==
    /\ bcall.made
    /\ bcall.answer = [kind |-> "ok", params |-> "none"]
    /\ bcall.answerId = [kind |-> "string", str |-> <<"0", "2">>]
    /\ bcall.result = Ok(<<2, "{}">>)
    /\ bcall.innerCalls = 0

\* the positions of params_vec where the flag of the parameter name stands
FlagPositions(params_vec, name) ==
    {i \in DOMAIN params_vec : i % 2 = 1 /\ TrimStart(params_vec[i], "-") = name}

\* params_vec is a list of flag/value pairs: every odd token starts with a
\* dash, no even token does, and every input of the method has one flag
FlagValuePairs(params_vec, inputs) ==
    /\ Len(params_vec) % 2 = 0
    /\ \A i \in DOMAIN params_vec : (Head(params_vec[i]) = "-") <=> (i % 2 = 1)
    /\ \A k \in DOMAIN inputs : Cardinality(FlagPositions(params_vec, inputs[k].name)) = 1

\* C24: when parse_params gets a list of flag/value pairs and succeeds, the
\* returned object has exactly the method's input names as keys and every
\* parameter is bound to the token that follows its own flag.
C24_BindsOwnValue ==
    (/\ pc = "parsed"
     /\ Len(args.params_vec) > 1
     /\ FlagValuePairs(args.params_vec, args.inputs)
     /\ parsed.kind = "ok") =>
        /\ parsed.form = "json"
        /\ DOMAIN parsed.json = {args.inputs[k].name : k \in DOMAIN args.inputs}
        /\ \A k \in DOMAIN args.inputs :
             \A i \in FlagPositions(args.params_vec, args.inputs[k].name) :
                parsed.json[args.inputs[k].name] =
                    ParamValue(args.inputs[k].kind, args.params_vec[i + 1]).val

====
